---- MODULE Spec2Model ----
(***************************************************************************)
(* A model of the ratchet pipeline runtime (pipeline.go): wiring of the    *)
(* channel fabric, the per-processor worker pool, the kick-off of the      *)
(* roots, the completion watcher and the kill arbiter of Pipeline.Run,     *)
(* together with util.KillPipelineIfErr.  Goroutines are processes with a  *)
(* program counter; Go channels are FIFO buffers with a close counter, an  *)
(* unbuffered channel hands a value from a ready sender to a ready         *)
(* receiver in one step.                                                   *)
(***************************************************************************)
EXTENDS Integers, Sequences, FiniteSets, TLC

\* ------------------------------------------------------------------ bounds
\* Largest BufferLength tried (0 is the value NewPipeline leaves in place).
MaxBufferLength == 1
\* Largest number of non-nil errors the processors report in one run.
MaxErrors == 2
\* Largest number of Cleanup calls the caller makes.
MaxCleanups == 2

\* --------------------------------------------------------------- constants
StartSignal == "GO"
Canceled == "context canceled"
NilErr == "nil"
ErrNames == <<"E1", "E2", "E3", "E4">>
\* p.BufferLength as NewPipeline and NewBranchingPipeline leave it: the
\* zero value of the int field, which neither constructor assigns
UnsetBufferLength == 0
\* the default the comment of the BufferLength field documents
DocumentedBufferLength == 8

\* ----------------------------------------------------------------- layouts
\* NewPipeline with the next processor as the successor of the last one too
\* (the guard i < len(processors)-1 left out)
NewPipeline_WrapAround(processors) ==
  LET n == Len(processors)
      Pos(p) == CHOOSE i \in 1 .. n : processors[i] = p
  IN  [ stages  |-> [ i \in 1 .. n |-> << processors[i] >> ],
        outputs |-> [ p \in 1 .. n |-> << processors[(Pos(p) % n) + 1] >> ] ]

\* NewPipeline(ctx, onComplete, processors...): one stage per processor, in
\* order; every processor but the last outputs to the next one.  Processors
\* are identified by the numbers 1..n; outputs is indexed by processor.
NewPipeline(processors) ==
  LET n == Len(processors)
      Pos(p) == CHOOSE i \in 1 .. n : processors[i] = p
  IN  [ stages  |-> [ i \in 1 .. n |-> << processors[i] >> ],
        outputs |-> [ p \in 1 .. n |->
                        IF Pos(p) < n THEN << processors[Pos(p) + 1] >> ELSE << >> ] ]

\* The pipelines a run is checked on.  Nodes are numbered 1..N; stages lists
\* the nodes of each stage in order, outputs[n] is dp.outputs of node n,
\* concurrency[n] its concurrency hint; processors is the argument list of
\* NewPipeline (empty for a layout handed to NewBranchingPipeline).
\* kind/emits/fin/fails/plain describe the processor a node wraps: an "emit"
\* processor sends emits[n] from ProcessData, a "pass" processor forwards its
\* input, a "collect" processor sends nothing; every processor sends fin[n]
\* from Finish; a processor in fails calls util.KillPipelineIfErr(err, ...)
\* in either call, with err nil or an error; a
\* processor in plain sends with a bare outputChan <- d, the others select
\* on the send and ctx.Done().  cancellable says whether the parent context
\* handed to the constructor can be cancelled (context.Background() cannot),
\* cleans whether the caller calls Cleanup, reads whether the caller
\* receives from the channel Run returns.
Layouts ==
  << \* linear, failing processors: emitter -> collector
     NewPipeline(<< 1, 2 >>) @@
     [ processors  |-> << 1, 2 >>,
       concurrency |-> << 0, 1 >>,
       kind        |-> << "emit", "collect" >>,
       emits       |-> << <<"a">>, <<>> >>,
       fin         |-> << <<>>, <<>> >>,
       fails       |-> { 1, 2 },
       plain       |-> {},
       cancellable |-> TRUE,
       cleans      |-> FALSE,
       reads       |-> TRUE ],
     \* linear, a root that flushes from Finish: flusher -> collector
     NewPipeline(<< 1, 2 >>) @@
     [ processors  |-> << 1, 2 >>,
       concurrency |-> << 1, 1 >>,
       kind        |-> << "collect", "collect" >>,
       emits       |-> << <<>>, <<>> >>,
       fin         |-> << <<"f">>, <<>> >>,
       fails       |-> {},
       plain       |-> {},
       cancellable |-> TRUE,
       cleans      |-> FALSE,
       reads       |-> TRUE ],
     \* two-way fan-out, two workers on the root and on one collector:
     \* emitter -> {collector, collector}
     [ processors  |-> << >>,
       stages      |-> << <<1>>, <<2, 3>> >>,
       outputs     |-> << <<2, 3>>, <<>>, <<>> >>,
       concurrency |-> << 2, 2, 1 >>,
       kind        |-> << "emit", "collect", "collect" >>,
       emits       |-> << <<"a", "b">>, <<>>, <<>> >>,
       fin         |-> << <<>>, <<>>, <<>> >>,
       fails       |-> {},
       plain       |-> {},
       cancellable |-> FALSE,
       cleans      |-> FALSE,
       reads       |-> TRUE ],
     \* two-way fan-in: {emitter, emitter} -> collector
     [ processors  |-> << >>,
       stages      |-> << <<1, 2>>, <<3>> >>,
       outputs     |-> << <<3>>, <<3>>, <<>> >>,
       concurrency |-> << 1, 1, 1 >>,
       kind        |-> << "emit", "emit", "collect" >>,
       emits       |-> << <<"1", "2">>, <<"3", "4">>, <<>> >>,
       fin         |-> << <<>>, <<>>, <<>> >>,
       fails       |-> {},
       plain       |-> {},
       cancellable |-> FALSE,
       cleans      |-> FALSE,
       reads       |-> TRUE ],
     \* linear, three processors given as 2, 3, 1:
     \* emitter (2) -> identity (3) -> collector (1)
     NewPipeline(<< 2, 3, 1 >>) @@
     [ processors  |-> << 2, 3, 1 >>,
       concurrency |-> << 1, 1, 1 >>,
       kind        |-> << "collect", "emit", "pass" >>,
       emits       |-> << <<>>, <<"A", "B">>, <<>> >>,
       fin         |-> << <<>>, <<>>, <<>> >>,
       fails       |-> {},
       plain       |-> {},
       cancellable |-> FALSE,
       cleans      |-> FALSE,
       reads       |-> TRUE ],
     \* a single processor, whose caller also calls Cleanup
     NewPipeline(<< 1 >>) @@
     [ processors  |-> << 1 >>,
       concurrency |-> << 1 >>,
       kind        |-> << "collect" >>,
       emits       |-> << <<>> >>,
       fin         |-> << <<>> >>,
       fails       |-> {},
       plain       |-> {},
       cancellable |-> TRUE,
       cleans      |-> TRUE,
       reads       |-> TRUE ],
     \* linear, a reader that emits three payloads with a bare send:
     \* reader -> collector
     NewPipeline(<< 1, 2 >>) @@
     [ processors  |-> << 1, 2 >>,
       concurrency |-> << 1, 1 >>,
       kind        |-> << "emit", "collect" >>,
       emits       |-> << <<"a", "b", "c">>, <<>> >>,
       fin         |-> << <<>>, <<>> >>,
       fails       |-> {},
       plain       |-> { 1 },
       cancellable |-> TRUE,
       cleans      |-> FALSE,
       reads       |-> TRUE ],
     \* a single processor, whose caller never receives from killChan
     NewPipeline(<< 1 >>) @@
     [ processors  |-> << 1 >>,
       concurrency |-> << 1 >>,
       kind        |-> << "collect" >>,
       emits       |-> << <<>> >>,
       fin         |-> << <<>> >>,
       fails       |-> { 1 },
       plain       |-> {},
       cancellable |-> TRUE,
       cleans      |-> FALSE,
       reads       |-> FALSE ]
  >>

VARIABLES
  layout,        \* index of the layout being run (p.layout)
  bufLen,        \* p.BufferLength
  bufferLengthSet, \* history: the caller assigned p.BufferLength
  cleanupCalls,  \* how often the caller has called p.Cleanup()
  parentDone,    \* the parent context has been cancelled
  preCancelled,  \* history: the parent was cancelled before Run was called
  ctxDone,       \* p.ctx is done (parent cancelled, or p.cancel called)
  panicked,      \* the Go runtime has panicked (the process is gone)
  runpc,         \* where Pipeline.Run is
  rootIdx,       \* index of the root Run is kicking off
  runOut,        \* payloads the inline Finish of Run has still to emit
  runErr,        \* the error the inline Finish of Run reports
  wpc,           \* wpc[n][i]: where worker i of node n is
  wout,          \* wout[n][i]: payloads the current call has still to emit
  werr,          \* werr[n][i]: the error the current call reports
  inputChan,     \* inputChan[n]: dp.inputChan
  outputChan,    \* outputChan[n]: dp.outputChan
  edgeChan,      \* edgeChan[<<p, k>>]: the k-th branch channel of node p
  bpc,           \* bpc[n]: where the branch-out adapter of node n is
  bdata,         \* bdata[n]: the payload the adapter is duplicating
  bidx,          \* bidx[n]: the branch channel it writes next
  mpc,           \* mpc[e]: where the merge-in reader of edge e is
  mdata,         \* mdata[e]: the payload the reader forwards
  mcpc,          \* mcpc[n]: the merge-in closer of node n
  tpc,           \* tpc[n]: the goroutine that closes dp.outputChan
  timerStopped,  \* p.timer.Stop() has run
  arbpc,         \* where the kill goroutine of Run is
  arbErr,        \* the value it forwards
  killOut,       \* killChan: values sent on it and number of closes
  received,      \* what the caller has received from killChan
  onCompleteCalls, \* how often p.onComplete has been invoked
  errCount,      \* number of errors reported so far
  finishCalls,   \* history: finishCalls[n], Finish calls started
  finishEarly,   \* history: nodes whose Finish started before input drained
  finishLate,    \* history: nodes whose Finish started after outputChan closed
  recvd,         \* history: recvd[n], payloads received by the workers of n
  emitted        \* history: emitted[n], payloads sent on dp.outputChan

vars == << layout, bufLen, bufferLengthSet, cleanupCalls, parentDone, preCancelled, ctxDone, panicked,
           runpc, rootIdx, runOut, runErr, wpc, wout, werr,
           inputChan, outputChan, edgeChan, bpc, bdata, bidx, mpc, mdata, mcpc,
           tpc, timerStopped, arbpc, arbErr, killOut, received,
           onCompleteCalls, errCount, finishCalls, finishEarly,
           finishLate, recvd, emitted >>

cfgVars == << layout, bufLen, bufferLengthSet >>
callerVars == << cleanupCalls >>
envVars == << parentDone, preCancelled >>
runVars == << runpc, rootIdx, runOut, runErr >>
workerVars == << wpc, wout, werr >>
branchVars == << bpc, bdata, bidx >>
mergeVars == << mpc, mdata >>
arbVars == << arbpc, arbErr, killOut, received, onCompleteCalls >>
workerHist == << recvd >>
finishHist == << finishCalls, finishEarly, finishLate >>

\* ------------------------------------------------------------ the layout
Lay == Layouts[layout]
Nodes == 1 .. Len(Lay.outputs)
Roots == Lay.stages[1]
RootSet == { Roots[j] : j \in 1 .. Len(Roots) }

\* numWorkers of runStages
NumWorkers(n) == IF Lay.concurrency[n] > 1 THEN Lay.concurrency[n] ELSE 1
Workers(n) == 1 .. NumWorkers(n)

\* dataProcessorOutputs: the nodes dp.outputs resolves to
DataProcessorOutputs(n) == Lay.outputs[n]

\* connectStages appending one and the same channel for every output
BranchOutChans_Shared(n) == [ k \in 1 .. Len(DataProcessorOutputs(n)) |-> <<n, 1>> ]

\* from.branchOutChans after connectStages: one channel per output
BranchOutChans(n) == [ k \in 1 .. Len(DataProcessorOutputs(n)) |-> <<n, k>> ]
Edges == UNION { { BranchOutChans(n)[k] : k \in 1 .. Len(BranchOutChans(n)) } : n \in Nodes }
EdgeTo(e) == DataProcessorOutputs(e[1])[e[2]]
\* connectStages appending to to.mergeInChans only while it is still nil
MergeInChans_FirstOnly(n) ==
  { e \in Edges : EdgeTo(e) = n /\ \A f \in Edges : EdgeTo(f) = n => e[1] <= f[1] }

\* to.mergeInChans after connectStages, as a set
MergeInChans(n) == { e \in Edges : EdgeTo(e) = n }

\* The two nested loops of connectStages, step by step.
\* the concatenation of the sequences of ss
RECURSIVE Flatten(_)
Flatten(ss) == IF ss = << >> THEN << >> ELSE Head(ss) \o Flatten(Tail(ss))
\* for _, stage := range p.layout.stages { for _, from := range stage.processors
ProcessorsInOrder == Flatten(Lay.stages)
\* for _, to := range p.dataProcessorOutputs(from): the pairs (from, to)
OutputPairs(from) ==
  [ k \in 1 .. Len(DataProcessorOutputs(from)) |-> << from, DataProcessorOutputs(from)[k] >> ]
\* every (from, to) in the order in which connectStages visits them
WiringOrder ==
  Flatten([ j \in 1 .. Len(ProcessorsInOrder) |-> OutputPairs(ProcessorsInOrder[j]) ])

\* the loop body with c := p.initDataChan() made once per from, not per to
WireStep_ChanPerFrom(w, pair) ==
  LET from == pair[1]
      to == pair[2]
      c == IF w.branchOutChans[from] = << >> THEN w.made + 1
           ELSE w.branchOutChans[from][1]
  IN  [ made           |-> IF w.branchOutChans[from] = << >> THEN w.made + 1 ELSE w.made,
        branchOutChans |-> [ w.branchOutChans EXCEPT ![from] = Append(@, c) ],
        mergeInChans   |-> [ w.mergeInChans EXCEPT ![to] = Append(@, c) ] ]

\* the loop body: c := p.initDataChan() makes a new channel (the made-th
\* one), which is appended to from.branchOutChans and to to.mergeInChans
WireStep(w, pair) ==
  LET from == pair[1]
      to == pair[2]
      c == w.made + 1
  IN  [ made           |-> c,
        branchOutChans |-> [ w.branchOutChans EXCEPT ![from] = Append(@, c) ],
        mergeInChans   |-> [ w.mergeInChans EXCEPT ![to] = Append(@, c) ] ]

RECURSIVE Wire(_, _)
Wire(w, pairs) ==
  IF pairs = << >> THEN w ELSE Wire(WireStep(w, Head(pairs)), Tail(pairs))

\* the first loop of connectStages: the channels made, numbered in the
\* order of their creation, and the slices they were appended to
ConnectStages ==
  Wire([ made           |-> 0,
         branchOutChans |-> [ n \in Nodes |-> << >> ],
         mergeInChans   |-> [ n \in Nodes |-> << >> ] ],
       WiringOrder)

\* dp.outputChan exists for a node with successors only
HasOutput(n) == Len(DataProcessorOutputs(n)) > 0

\* What the processor of node n emits from ProcessData(d) and from Finish
PDOut(n, d) ==
  IF ~HasOutput(n) THEN <<>>
  ELSE IF Lay.kind[n] = "emit" THEN Lay.emits[n]
  ELSE IF Lay.kind[n] = "pass" THEN <<d>>
  ELSE <<>>
FinOut(n) == IF HasOutput(n) THEN Lay.fin[n] ELSE <<>>

NewChan == [ buf |-> <<>>, closes |-> 0 ]
IsClosed(c) == c.closes > 0

\* p.wg has drained: every worker of every node has returned
AllWorkersDone == \A n \in Nodes : \A i \in Workers(n) : wpc[n][i] = "done"
\* concurrencyWg of node n has drained
NodeWorkersDone(n) == \A i \in Workers(n) : wpc[n][i] = "done"
\* a ProcessData call of node n is in progress
PDActive(n) == \E i \in Workers(n) : wpc[n][i] \in { "pd_kill", "pd_emit" }
\* no ProcessData call of node n is still to come
InputDrained(n) == IsClosed(inputChan[n]) /\ inputChan[n].buf = <<>>

\* -------------------------------------------------------------------- Init
\* The state after NewPipeline / NewBranchingPipeline: nothing is wired and
\* no goroutine runs.
Init ==
  /\ layout \in 1 .. Len(Layouts)
  /\ bufferLengthSet \in BOOLEAN
  /\ bufLen \in IF bufferLengthSet THEN 1 .. MaxBufferLength ELSE { UnsetBufferLength }
  /\ cleanupCalls = 0
  /\ parentDone = FALSE /\ preCancelled = FALSE /\ ctxDone = FALSE
  /\ panicked = FALSE
  /\ runpc = "init" /\ rootIdx = 1 /\ runOut = <<>> /\ runErr = NilErr
  /\ wpc = [ n \in Nodes |-> [ i \in Workers(n) |-> "idle" ] ]
  /\ wout = [ n \in Nodes |-> [ i \in Workers(n) |-> <<>> ] ]
  /\ werr = [ n \in Nodes |-> [ i \in Workers(n) |-> NilErr ] ]
  /\ inputChan = [ n \in Nodes |-> NewChan ]
  /\ outputChan = [ n \in Nodes |-> NewChan ]
  /\ edgeChan = [ e \in Edges |-> NewChan ]
  /\ bpc = [ n \in Nodes |-> "idle" ]
  /\ bdata = [ n \in Nodes |-> StartSignal ]
  /\ bidx = [ n \in Nodes |-> 1 ]
  /\ mpc = [ e \in Edges |-> "idle" ]
  /\ mdata = [ e \in Edges |-> StartSignal ]
  /\ mcpc = [ n \in Nodes |-> "idle" ]
  /\ tpc = [ n \in Nodes |-> "idle" ]
  /\ timerStopped = FALSE
  /\ arbpc = "idle" /\ arbErr = NilErr
  /\ killOut = [ sent |-> <<>>, closes |-> 0 ]
  /\ received = <<>>
  /\ onCompleteCalls = 0
  /\ errCount = 0
  /\ finishCalls = [ n \in Nodes |-> 0 ]
  /\ finishEarly = {}
  /\ finishLate = {}
  /\ recvd = [ n \in Nodes |-> <<>> ]
  /\ emitted = [ n \in Nodes |-> <<>> ]

\* ------------------------------------------------------- channel operations
\* A ProcessData call of worker i of node n starts on payload d
\* (runStages, the receive case of the worker's select).  A processor in
\* fails first calls util.KillPipelineIfErr(err, killChan, ctx), with err
\* nil or not; then the processor emits PDOut(n, d).
WorkerBegin(n, i, d) ==
  \E e \in BOOLEAN :
    /\ e => (n \in Lay.fails /\ errCount < MaxErrors)
    /\ wpc' = [ wpc EXCEPT ![n][i] =
                 IF n \in Lay.fails THEN "pd_kill"
                 ELSE IF PDOut(n, d) = <<>> THEN "select" ELSE "pd_emit" ]
    /\ wout' = [ wout EXCEPT ![n][i] = PDOut(n, d) ]
    /\ werr' = [ werr EXCEPT ![n][i] = IF e THEN ErrNames[errCount + 1] ELSE NilErr ]
    /\ errCount' = IF e THEN errCount + 1 ELSE errCount
    /\ recvd' = [ recvd EXCEPT ![n] = Append(@, d) ]

\* A send of d on dp.inputChan of node n completes: into the buffer, or, on
\* an unbuffered channel, straight into a worker waiting in its select.
SendInput(n, d) ==
  \/ /\ Len(inputChan[n].buf) < bufLen
     /\ inputChan' = [ inputChan EXCEPT ![n].buf = Append(@, d) ]
     /\ UNCHANGED << workerVars, workerHist, errCount >>
  \/ /\ bufLen = 0
     /\ \E i \in Workers(n) : wpc[n][i] = "select" /\ WorkerBegin(n, i, d)
     /\ UNCHANGED inputChan

\* A send of d on dp.outputChan of node n completes: into the buffer, or
\* straight into the branch-out adapter waiting for it.
SendOutput(n, d) ==
  /\ ~IsClosed(outputChan[n])
  /\ emitted' = [ emitted EXCEPT ![n] = Append(@, d) ]
  /\ \/ /\ Len(outputChan[n].buf) < bufLen
        /\ outputChan' = [ outputChan EXCEPT ![n].buf = Append(@, d) ]
        /\ UNCHANGED branchVars
     \/ /\ bufLen = 0
        /\ bpc[n] = "recv"
        /\ bpc' = [ bpc EXCEPT ![n] = "send" ]
        /\ bdata' = [ bdata EXCEPT ![n] = d ]
        /\ bidx' = [ bidx EXCEPT ![n] = 1 ]
        /\ UNCHANGED outputChan

\* A send of d on branch channel e completes: into the buffer, or straight
\* into the merge-in reader waiting for it.
SendEdge(e, d) ==
  \/ /\ Len(edgeChan[e].buf) < bufLen
     /\ edgeChan' = [ edgeChan EXCEPT ![e].buf = Append(@, d) ]
     /\ UNCHANGED mergeVars
  \/ /\ bufLen = 0
     /\ mpc[e] = "recv"
     /\ mpc' = [ mpc EXCEPT ![e] = "send" ]
     /\ mdata' = [ mdata EXCEPT ![e] = d ]
     /\ UNCHANGED edgeChan

\* KillPipelineIfErr sending the error with a bare killChan <- err
KillPipelineIfErr_BareSend(e) ==
  \/ /\ e = NilErr
     /\ UNCHANGED << arbpc, arbErr >>
  \/ /\ e # NilErr
     /\ arbpc = "select"
     /\ arbpc' = "cancel"
     /\ arbErr' = e

\* util.KillPipelineIfErr(e, killChan, ctx): nothing when e is nil;
\* otherwise the select returns when the context is done, or when the kill
\* goroutine of Run receives e.
KillPipelineIfErr(e) ==
  \/ /\ e = NilErr
     /\ UNCHANGED << arbpc, arbErr >>
  \/ /\ e # NilErr
     /\ ctxDone
     /\ UNCHANGED << arbpc, arbErr >>
  \/ /\ e # NilErr
     /\ arbpc = "select"
     /\ arbpc' = "cancel"
     /\ arbErr' = e

\* A panic of the Go runtime: the process and all its goroutines are gone.
Crash ==
  /\ panicked' = TRUE
  /\ runpc' = "panic"
  /\ arbpc' = "panic"
  /\ wpc' = [ n \in Nodes |-> [ i \in Workers(n) |-> "panic" ] ]
  /\ bpc' = [ n \in Nodes |-> "panic" ]
  /\ mpc' = [ e \in Edges |-> "panic" ]
  /\ mcpc' = [ n \in Nodes |-> "panic" ]
  /\ tpc' = [ n \in Nodes |-> "panic" ]

\* A send on a closed payload channel panics.
Panic ==
  /\ Crash
  /\ UNCHANGED << cfgVars, callerVars, envVars, ctxDone, rootIdx, runOut, runErr, wout, werr,
                  inputChan, outputChan, edgeChan, bdata, bidx, mdata,
                  timerStopped, arbErr, killOut, received, onCompleteCalls,
                  errCount, workerHist, finishHist, emitted >>

\* A call of dp.Finish of node n starts.
FinishStart(n) ==
  /\ finishCalls' = [ finishCalls EXCEPT ![n] = @ + 1 ]
  /\ finishEarly' = IF PDActive(n) \/ ~InputDrained(n)
                    THEN finishEarly \cup { n } ELSE finishEarly
  /\ finishLate' = IF IsClosed(outputChan[n])
                   THEN finishLate \cup { n } ELSE finishLate

\* --------------------------------------------------------------- Pipeline.Run
\* Run up to the kick-off loop: connectStages starts the adapters of every
\* node and runStages starts its workers and the closer of its output.
RunStart ==
  /\ runpc = "init"
  /\ runpc' = "kick_send"
  /\ preCancelled' = parentDone
  /\ wpc' = [ n \in Nodes |-> [ i \in Workers(n) |-> "select" ] ]
  /\ tpc' = [ n \in Nodes |-> "wait" ]
  /\ bpc' = [ n \in Nodes |-> IF HasOutput(n) THEN "recv" ELSE "idle" ]
  /\ mpc' = [ e \in Edges |-> IF e \in MergeInChans(EdgeTo(e)) THEN "recv" ELSE "idle" ]
  /\ mcpc' = [ n \in Nodes |-> IF MergeInChans(n) # {} THEN "wait" ELSE "idle" ]
  /\ UNCHANGED << cfgVars, callerVars, parentDone, ctxDone, panicked, rootIdx, runOut, runErr,
                  wout, werr, inputChan, outputChan, edgeChan, bdata, bidx, mdata,
                  timerStopped, arbVars, errCount, workerHist, finishHist, emitted >>

\* the start token written once per worker of the root
KickSend_PerWorker ==
  /\ runpc = "kick_send"
  /\ SendInput(Roots[rootIdx], StartSignal)
  /\ runpc' = IF Len(recvd[Roots[rootIdx]]) + Len(inputChan[Roots[rootIdx]].buf) + 1
                   < NumWorkers(Roots[rootIdx])
              THEN "kick_send" ELSE "kick_fin"
  /\ UNCHANGED << cfgVars, callerVars, envVars, ctxDone, panicked, rootIdx, runOut,
                  runErr, outputChan, edgeChan, branchVars, mergeVars, mcpc, tpc,
                  timerStopped, arbVars, finishHist, emitted >>

\* dp.inputChan <- data.JSON(StartSignal)
KickSend ==
  /\ runpc = "kick_send"
  /\ SendInput(Roots[rootIdx], StartSignal)
  /\ runpc' = "kick_fin"
  /\ UNCHANGED << cfgVars, callerVars, envVars, ctxDone, panicked, rootIdx, runOut, runErr,
                  outputChan, edgeChan, branchVars, mergeVars, mcpc, tpc,
                  timerStopped, arbVars, finishHist, emitted >>

\* dp.Finish(dp.outputChan, innerKillChan, p.ctx), called by Run itself
KickFinish ==
  /\ runpc = "kick_fin"
  /\ FinishStart(Roots[rootIdx])
  /\ \E e \in BOOLEAN :
       /\ e => (Roots[rootIdx] \in Lay.fails /\ errCount < MaxErrors)
       /\ runpc' = IF Roots[rootIdx] \in Lay.fails THEN "kick_kill"
                   ELSE IF FinOut(Roots[rootIdx]) = <<>> THEN "kick_close"
                   ELSE "kick_emit"
       /\ runErr' = IF e THEN ErrNames[errCount + 1] ELSE NilErr
       /\ errCount' = IF e THEN errCount + 1 ELSE errCount
  /\ runOut' = FinOut(Roots[rootIdx])
  /\ UNCHANGED << cfgVars, callerVars, envVars, ctxDone, panicked, rootIdx, workerVars,
                  inputChan, outputChan, edgeChan, branchVars, mergeVars, mcpc,
                  tpc, timerStopped, arbVars, workerHist, emitted >>

\* the inline Finish reports its error
KickKill ==
  /\ runpc = "kick_kill"
  /\ KillPipelineIfErr(runErr)
  /\ runpc' = IF runOut = <<>> THEN "kick_close" ELSE "kick_emit"
  /\ runErr' = NilErr
  /\ UNCHANGED << cfgVars, callerVars, envVars, ctxDone, panicked, rootIdx, runOut, workerVars,
                  inputChan, outputChan, edgeChan, branchVars, mergeVars, mcpc,
                  tpc, timerStopped, killOut, received, onCompleteCalls, errCount,
                  workerHist, finishHist, emitted >>

\* the inline Finish emits: select { outputChan <- d; <-ctx.Done() }, or,
\* for a processor in plain, the bare outputChan <- d
KickEmit ==
  /\ runpc = "kick_emit"
  /\ \/ /\ SendOutput(Roots[rootIdx], Head(runOut))
        /\ runOut' = Tail(runOut)
        /\ runpc' = IF Tail(runOut) = <<>> THEN "kick_close" ELSE "kick_emit"
        /\ UNCHANGED << cfgVars, callerVars, envVars, ctxDone, panicked, rootIdx, runErr,
                        workerVars, inputChan, edgeChan, mergeVars, mcpc, tpc,
                        timerStopped, arbVars, errCount, workerHist, finishHist >>
     \/ /\ ctxDone /\ Roots[rootIdx] \notin Lay.plain
        /\ runOut' = <<>>
        /\ runpc' = "kick_close"
        /\ UNCHANGED << cfgVars, callerVars, envVars, ctxDone, panicked, rootIdx, runErr,
                        workerVars, inputChan, outputChan, edgeChan, branchVars,
                        mergeVars, mcpc, tpc, timerStopped, arbVars, errCount,
                        workerHist, finishHist, emitted >>
     \/ /\ IsClosed(outputChan[Roots[rootIdx]])
        /\ Panic

\* the kick-off loop going on to the next root without close(dp.inputChan)
KickClose_NoClose ==
  /\ runpc = "kick_close"
  /\ rootIdx' = rootIdx + 1
  /\ runpc' = IF rootIdx < Len(Roots) THEN "kick_send" ELSE "spawn"
  /\ UNCHANGED << cfgVars, callerVars, envVars, ctxDone, panicked, runOut, runErr,
                  workerVars, inputChan, outputChan, edgeChan, branchVars,
                  mergeVars, mcpc, tpc, timerStopped, arbVars, errCount,
                  workerHist, finishHist, emitted >>

\* close(dp.inputChan), and on to the next root
KickClose ==
  /\ runpc = "kick_close"
  /\ inputChan' = [ inputChan EXCEPT ![Roots[rootIdx]].closes = @ + 1 ]
  /\ rootIdx' = rootIdx + 1
  /\ runpc' = IF rootIdx < Len(Roots) THEN "kick_send" ELSE "spawn"
  /\ UNCHANGED << cfgVars, callerVars, envVars, ctxDone, panicked, runOut, runErr, workerVars,
                  outputChan, edgeChan, branchVars, mergeVars, mcpc, tpc,
                  timerStopped, arbVars, errCount, workerHist, finishHist, emitted >>

\* Run starts the completion watcher and the kill goroutine and returns
\* killChan to the caller, who receives from it.
RunReturn ==
  /\ runpc = "spawn"
  /\ runpc' = "returned"
  /\ arbpc' = "select"
  /\ UNCHANGED << cfgVars, callerVars, envVars, ctxDone, panicked, rootIdx, runOut, runErr,
                  workerVars, inputChan, outputChan, edgeChan, branchVars,
                  mergeVars, mcpc, tpc, timerStopped, arbErr, killOut, received,
                  onCompleteCalls, errCount, workerHist, finishHist, emitted >>

\* go func() { p.wg.Wait(); p.timer.Stop() }()
Watcher ==
  /\ runpc = "returned"
  /\ ~timerStopped
  /\ AllWorkersDone
  /\ timerStopped' = TRUE
  /\ UNCHANGED << cfgVars, callerVars, envVars, ctxDone, panicked, runVars, workerVars,
                  inputChan, outputChan, edgeChan, branchVars, mergeVars, mcpc,
                  tpc, arbVars, errCount, workerHist, finishHist, emitted >>

\* --------------------------------------------------------------- the workers
\* case d, ok := <-dp.inputChan with a payload: dp.processData(d, killChan)
WorkerRecv(n, i) ==
  /\ wpc[n][i] = "select"
  /\ inputChan[n].buf # <<>>
  /\ inputChan' = [ inputChan EXCEPT ![n].buf = Tail(@) ]
  /\ WorkerBegin(n, i, Head(inputChan[n].buf))
  /\ UNCHANGED << cfgVars, callerVars, envVars, ctxDone, panicked, runVars, outputChan,
                  edgeChan, branchVars, mergeVars, mcpc, tpc, timerStopped,
                  arbVars, finishHist, emitted >>

\* case d, ok := <-dp.inputChan with !ok: break, then dp.Finish(...)
WorkerInputClosed(n, i) ==
  /\ wpc[n][i] = "select"
  /\ InputDrained(n)
  /\ FinishStart(n)
  /\ \E e \in BOOLEAN :
       /\ e => (n \in Lay.fails /\ errCount < MaxErrors)
       /\ wpc' = [ wpc EXCEPT ![n][i] =
                    IF n \in Lay.fails THEN "fin_kill"
                    ELSE IF FinOut(n) = <<>> THEN "done" ELSE "fin_emit" ]
       /\ werr' = [ werr EXCEPT ![n][i] = IF e THEN ErrNames[errCount + 1] ELSE NilErr ]
       /\ errCount' = IF e THEN errCount + 1 ELSE errCount
  /\ wout' = [ wout EXCEPT ![n][i] = FinOut(n) ]
  /\ UNCHANGED << cfgVars, callerVars, envVars, ctxDone, panicked, runVars, inputChan,
                  outputChan, edgeChan, branchVars, mergeVars, mcpc, tpc,
                  timerStopped, arbVars, workerHist, emitted >>

\* case <-p.ctx.Done(): return
WorkerCtxDone(n, i) ==
  /\ wpc[n][i] = "select"
  /\ ctxDone
  /\ wpc' = [ wpc EXCEPT ![n][i] = "done" ]
  /\ UNCHANGED << cfgVars, callerVars, envVars, ctxDone, panicked, runVars, wout, werr,
                  inputChan, outputChan, edgeChan, branchVars, mergeVars, mcpc,
                  tpc, timerStopped, arbVars, errCount, workerHist, finishHist,
                  emitted >>

\* where a worker goes when its ProcessData / Finish call returns
AfterCall(pc) == IF pc \in { "pd_kill", "pd_emit" } THEN "select" ELSE "done"
EmitState(pc) == IF pc \in { "pd_kill", "pd_emit" } THEN "pd_emit" ELSE "fin_emit"

\* the processor reports its error: util.KillPipelineIfErr(err, killChan, ctx)
WorkerKill(n, i) ==
  /\ wpc[n][i] \in { "pd_kill", "fin_kill" }
  /\ KillPipelineIfErr(werr[n][i])
  /\ wpc' = [ wpc EXCEPT ![n][i] =
               IF wout[n][i] = <<>> THEN AfterCall(@) ELSE EmitState(@) ]
  /\ werr' = [ werr EXCEPT ![n][i] = NilErr ]
  /\ UNCHANGED << cfgVars, callerVars, envVars, ctxDone, panicked, runVars, wout, inputChan,
                  outputChan, edgeChan, branchVars, mergeVars, mcpc, tpc,
                  timerStopped, killOut, received, onCompleteCalls, errCount,
                  workerHist, finishHist, emitted >>

\* the processor emits: select { outputChan <- d; <-ctx.Done() }, or, for a
\* processor in plain, the bare outputChan <- d
WorkerEmit(n, i) ==
  /\ wpc[n][i] \in { "pd_emit", "fin_emit" }
  /\ \/ /\ SendOutput(n, Head(wout[n][i]))
        /\ wout' = [ wout EXCEPT ![n][i] = Tail(@) ]
        /\ wpc' = [ wpc EXCEPT ![n][i] =
                     IF Tail(wout[n][i]) = <<>> THEN AfterCall(@) ELSE @ ]
        /\ UNCHANGED << cfgVars, callerVars, envVars, ctxDone, panicked, runVars, werr,
                        inputChan, edgeChan, mergeVars, mcpc, tpc, timerStopped,
                        arbVars, errCount, workerHist, finishHist >>
     \/ /\ ctxDone /\ n \notin Lay.plain
        /\ wout' = [ wout EXCEPT ![n][i] = <<>> ]
        /\ wpc' = [ wpc EXCEPT ![n][i] = AfterCall(@) ]
        /\ UNCHANGED << cfgVars, callerVars, envVars, ctxDone, panicked, runVars, werr,
                        inputChan, outputChan, edgeChan, branchVars, mergeVars,
                        mcpc, tpc, timerStopped, arbVars, errCount, workerHist,
                        finishHist, emitted >>
     \/ /\ IsClosed(outputChan[n])
        /\ Panic

\* the close of dp.outputChan done once per exiting worker, without the Wait
Terminator_NoWait(n) ==
  /\ tpc[n] = "wait"
  /\ \E i \in Workers(n) : wpc[n][i] = "done"
  /\ outputChan[n].closes < NumWorkers(n)
  /\ tpc' = [ tpc EXCEPT ![n] = IF NodeWorkersDone(n) THEN "done" ELSE "wait" ]
  /\ outputChan' = IF HasOutput(n)
                   THEN [ outputChan EXCEPT ![n].closes = @ + 1 ]
                   ELSE outputChan
  /\ UNCHANGED << cfgVars, callerVars, envVars, ctxDone, panicked, runVars, workerVars,
                  inputChan, edgeChan, branchVars, mergeVars, mcpc, timerStopped,
                  arbVars, errCount, workerHist, finishHist, emitted >>

\* go func() { concurrencyWg.Wait(); if dp.outputChan != nil { close(dp.outputChan) } }()
Terminator(n) ==
  /\ tpc[n] = "wait"
  /\ NodeWorkersDone(n)
  /\ tpc' = [ tpc EXCEPT ![n] = "done" ]
  /\ outputChan' = IF HasOutput(n)
                   THEN [ outputChan EXCEPT ![n].closes = @ + 1 ]
                   ELSE outputChan
  /\ UNCHANGED << cfgVars, callerVars, envVars, ctxDone, panicked, runVars, workerVars,
                  inputChan, edgeChan, branchVars, mergeVars, mcpc, timerStopped,
                  arbVars, errCount, workerHist, finishHist, emitted >>

\* ------------------------------------------------------- branch-out adapter
\* for d := range dp.outputChan
BranchRecv(n) ==
  /\ bpc[n] = "recv"
  /\ outputChan[n].buf # <<>>
  /\ outputChan' = [ outputChan EXCEPT ![n].buf = Tail(@) ]
  /\ bpc' = [ bpc EXCEPT ![n] = "send" ]
  /\ bdata' = [ bdata EXCEPT ![n] = Head(outputChan[n].buf) ]
  /\ bidx' = [ bidx EXCEPT ![n] = 1 ]
  /\ UNCHANGED << cfgVars, callerVars, envVars, ctxDone, panicked, runVars, workerVars,
                  inputChan, edgeChan, mergeVars, mcpc, tpc, timerStopped,
                  arbVars, errCount, workerHist, finishHist, emitted >>

\* the payload is written to the next branch channel, in declaration order
BranchSend(n) ==
  /\ bpc[n] = "send"
  /\ SendEdge(BranchOutChans(n)[bidx[n]], bdata[n])
  /\ bidx' = [ bidx EXCEPT ![n] = IF @ < Len(BranchOutChans(n)) THEN @ + 1 ELSE 1 ]
  /\ bpc' = [ bpc EXCEPT ![n] =
               IF bidx[n] < Len(BranchOutChans(n)) THEN "send" ELSE "recv" ]
  /\ bdata' = [ bdata EXCEPT ![n] =
                 IF bidx[n] < Len(BranchOutChans(n)) THEN @ ELSE StartSignal ]
  /\ UNCHANGED << cfgVars, callerVars, envVars, ctxDone, panicked, runVars, workerVars,
                  inputChan, outputChan, mcpc, tpc, timerStopped, arbVars,
                  errCount, workerHist, finishHist, emitted >>

\* a write to a branch channel gives way to cancellation: the adapter exits
BranchCtxDone(n) ==
  /\ bpc[n] = "send"
  /\ ctxDone
  /\ bpc' = [ bpc EXCEPT ![n] = "aborted" ]
  /\ UNCHANGED << cfgVars, callerVars, envVars, ctxDone, panicked, runVars, workerVars,
                  inputChan, outputChan, edgeChan, bdata, bidx, mergeVars, mcpc,
                  tpc, timerStopped, arbVars, errCount, workerHist, finishHist,
                  emitted >>

\* dp.outputChan is closed and drained: close every branch channel and exit
BranchClosed(n) ==
  /\ bpc[n] = "recv"
  /\ IsClosed(outputChan[n]) /\ outputChan[n].buf = <<>>
  /\ bpc' = [ bpc EXCEPT ![n] = "done" ]
  /\ edgeChan' = [ e \in Edges |->
                    IF \E k \in 1 .. Len(BranchOutChans(n)) : BranchOutChans(n)[k] = e
                    THEN [ edgeChan[e] EXCEPT !.closes = @ + 1 ]
                    ELSE edgeChan[e] ]
  /\ UNCHANGED << cfgVars, callerVars, envVars, ctxDone, panicked, runVars, workerVars,
                  inputChan, outputChan, bdata, bidx, mergeVars, mcpc, tpc,
                  timerStopped, arbVars, errCount, workerHist, finishHist, emitted >>

\* ---------------------------------------------------------- merge-in adapter
\* the reader of branch channel e receives a payload
MergeRecv(e) ==
  /\ mpc[e] = "recv"
  /\ edgeChan[e].buf # <<>>
  /\ edgeChan' = [ edgeChan EXCEPT ![e].buf = Tail(@) ]
  /\ mpc' = [ mpc EXCEPT ![e] = "send" ]
  /\ mdata' = [ mdata EXCEPT ![e] = Head(edgeChan[e].buf) ]
  /\ UNCHANGED << cfgVars, callerVars, envVars, ctxDone, panicked, runVars, workerVars,
                  inputChan, outputChan, branchVars, mcpc, tpc, timerStopped,
                  arbVars, errCount, workerHist, finishHist, emitted >>

\* the reader forwards the payload into dp.inputChan of its node
MergeSend(e) ==
  /\ mpc[e] = "send"
  /\ SendInput(EdgeTo(e), mdata[e])
  /\ mpc' = [ mpc EXCEPT ![e] = "recv" ]
  /\ mdata' = [ mdata EXCEPT ![e] = StartSignal ]
  /\ UNCHANGED << cfgVars, callerVars, envVars, ctxDone, panicked, runVars, outputChan,
                  edgeChan, branchVars, mcpc, tpc, timerStopped, arbVars,
                  finishHist, emitted >>

\* the forward gives way to cancellation: the reader exits
MergeCtxDone(e) ==
  /\ mpc[e] = "send"
  /\ ctxDone
  /\ mpc' = [ mpc EXCEPT ![e] = "aborted" ]
  /\ UNCHANGED << cfgVars, callerVars, envVars, ctxDone, panicked, runVars, workerVars,
                  inputChan, outputChan, edgeChan, branchVars, mdata, mcpc, tpc,
                  timerStopped, arbVars, errCount, workerHist, finishHist, emitted >>

\* branch channel e is closed and drained: the reader is done
MergeClosed(e) ==
  /\ mpc[e] = "recv"
  /\ IsClosed(edgeChan[e]) /\ edgeChan[e].buf = <<>>
  /\ mpc' = [ mpc EXCEPT ![e] = "done" ]
  /\ UNCHANGED << cfgVars, callerVars, envVars, ctxDone, panicked, runVars, workerVars,
                  inputChan, outputChan, edgeChan, branchVars, mdata, mcpc, tpc,
                  timerStopped, arbVars, errCount, workerHist, finishHist, emitted >>

\* every reader of node n is done: close(dp.inputChan)
MergeClose(n) ==
  /\ mcpc[n] = "wait"
  /\ \A e \in MergeInChans(n) : mpc[e] = "done"
  /\ mcpc' = [ mcpc EXCEPT ![n] = "done" ]
  /\ inputChan' = [ inputChan EXCEPT ![n].closes = @ + 1 ]
  /\ UNCHANGED << cfgVars, callerVars, envVars, ctxDone, panicked, runVars, workerVars,
                  outputChan, edgeChan, branchVars, mergeVars, tpc, timerStopped,
                  arbVars, errCount, workerHist, finishHist, emitted >>

\* ------------------------------------------------- the kill goroutine of Run
\* case <-p.ctx.Done(): the value to forward is p.ctx.Err()
ArbiterCtxDone ==
  /\ arbpc = "select"
  /\ ctxDone
  /\ arbpc' = "send"
  /\ arbErr' = Canceled
  /\ UNCHANGED << cfgVars, callerVars, envVars, ctxDone, panicked, runVars, workerVars,
                  inputChan, outputChan, edgeChan, branchVars, mergeVars, mcpc,
                  tpc, timerStopped, killOut, received, onCompleteCalls, errCount,
                  workerHist, finishHist, emitted >>

\* the error case forwarding p.ctx.Err() in place of err
ArbiterCancel_CtxErr ==
  /\ arbpc = "cancel"
  /\ ctxDone' = TRUE
  /\ arbpc' = "send"
  /\ arbErr' = Canceled
  /\ UNCHANGED << cfgVars, callerVars, envVars, panicked, runVars, workerVars, inputChan,
                  outputChan, edgeChan, branchVars, mergeVars, mcpc, tpc,
                  timerStopped, killOut, received, onCompleteCalls,
                  errCount, workerHist, finishHist, emitted >>

\* the error case without its p.cancel(): the context is left to the
\* deferred p.cancel()
ArbiterCancel_NoCancel ==
  /\ arbpc = "cancel"
  /\ arbpc' = "send"
  /\ UNCHANGED << cfgVars, callerVars, envVars, ctxDone, panicked, runVars,
                  workerVars, inputChan, outputChan, edgeChan, branchVars,
                  mergeVars, mcpc, tpc, timerStopped, arbErr, killOut, received,
                  onCompleteCalls, errCount, workerHist, finishHist, emitted >>

\* case err := <-innerKillChan: p.cancel()
ArbiterCancel ==
  /\ arbpc = "cancel"
  /\ ctxDone' = TRUE
  /\ arbpc' = "send"
  /\ UNCHANGED << cfgVars, callerVars, envVars, panicked, runVars, workerVars, inputChan,
                  outputChan, edgeChan, branchVars, mergeVars, mcpc, tpc,
                  timerStopped, arbErr, killOut, received, onCompleteCalls,
                  errCount, workerHist, finishHist, emitted >>

\* killChan <- err: killChan is unbuffered, the send completes when the
\* caller of Run receives.  (A send on killChan once it is closed would
\* panic.)
ArbiterSend ==
  /\ arbpc = "send"
  /\ runpc = "returned"
  /\ Lay.reads
  /\ killOut' = [ killOut EXCEPT !.sent = Append(@, arbErr) ]
  /\ \/ /\ killOut.closes = 0
        /\ received' = Append(received, arbErr)
        /\ arbpc' = "close"
        /\ UNCHANGED << cfgVars, callerVars, envVars, ctxDone, panicked, runVars, workerVars,
                        inputChan, outputChan, edgeChan, branchVars, mergeVars,
                        mcpc, tpc, timerStopped, arbErr, onCompleteCalls,
                        errCount, workerHist, finishHist, emitted >>
     \/ /\ killOut.closes > 0
        /\ Crash
        /\ UNCHANGED << cfgVars, callerVars, envVars, ctxDone, rootIdx, runOut, runErr, wout,
                        werr, inputChan, outputChan, edgeChan, bdata, bidx, mdata,
                        timerStopped, arbErr, received, onCompleteCalls,
                        errCount, workerHist, finishHist, emitted >>

\* close(killChan) without the return: the for loop selects again
ArbiterClose_NoReturn ==
  /\ arbpc = "close"
  /\ killOut' = [ killOut EXCEPT !.closes = @ + 1 ]
  /\ arbpc' = "select"
  /\ UNCHANGED << cfgVars, callerVars, envVars, ctxDone, panicked, runVars, workerVars,
                  inputChan, outputChan, edgeChan, branchVars, mergeVars, mcpc,
                  tpc, timerStopped, arbErr, received, onCompleteCalls, errCount,
                  workerHist, finishHist, emitted >>

\* close(killChan); return
ArbiterClose ==
  /\ arbpc = "close"
  /\ killOut' = [ killOut EXCEPT !.closes = @ + 1 ]
  /\ arbpc' = "defer"
  /\ UNCHANGED << cfgVars, callerVars, envVars, ctxDone, panicked, runVars, workerVars,
                  inputChan, outputChan, edgeChan, branchVars, mergeVars, mcpc,
                  tpc, timerStopped, arbErr, received, onCompleteCalls, errCount,
                  workerHist, finishHist, emitted >>

\* the deferred function: p.onComplete(), p.cancel()
ArbiterDefer ==
  /\ arbpc = "defer"
  /\ onCompleteCalls' = onCompleteCalls + 1
  /\ ctxDone' = TRUE
  /\ arbpc' = "done"
  /\ UNCHANGED << cfgVars, callerVars, envVars, panicked, runVars, workerVars, inputChan,
                  outputChan, edgeChan, branchVars, mergeVars, mcpc, tpc,
                  timerStopped, arbErr, killOut, received, errCount, workerHist,
                  finishHist, emitted >>

\* ------------------------------------------------------------ the environment
\* The owner of the parent context cancels it; p.ctx is derived from it.
ParentCancel ==
  /\ Lay.cancellable
  /\ ~panicked
  /\ ~parentDone
  /\ parentDone' = TRUE
  /\ ctxDone' = TRUE
  /\ UNCHANGED << cfgVars, callerVars, preCancelled, panicked, runVars, workerVars, inputChan,
                  outputChan, edgeChan, branchVars, mergeVars, mcpc, tpc,
                  timerStopped, arbVars, errCount, workerHist, finishHist, emitted >>

\* The caller calls p.Cleanup(), before Run or once Run has returned:
\* if p.onComplete != nil { p.onComplete() }
Cleanup ==
  /\ Lay.cleans
  /\ runpc \in { "init", "returned" }
  /\ cleanupCalls < MaxCleanups
  /\ cleanupCalls' = cleanupCalls + 1
  /\ UNCHANGED << cfgVars, envVars, ctxDone, panicked, runVars, workerVars,
                  inputChan, outputChan, edgeChan, branchVars, mergeVars, mcpc,
                  tpc, timerStopped, arbVars, errCount, workerHist, finishHist,
                  emitted >>

\* ------------------------------------------------------------ specification
\* One step of the program (everything but the environment).
Prog ==
  \/ RunStart \/ KickSend \/ KickFinish \/ KickKill \/ KickEmit \/ KickClose
  \/ RunReturn \/ Watcher
  \/ \E n \in Nodes : \E i \in Workers(n) : WorkerRecv(n, i)
  \/ \E n \in Nodes : \E i \in Workers(n) : WorkerInputClosed(n, i)
  \/ \E n \in Nodes : \E i \in Workers(n) : WorkerCtxDone(n, i)
  \/ \E n \in Nodes : \E i \in Workers(n) : WorkerKill(n, i)
  \/ \E n \in Nodes : \E i \in Workers(n) : WorkerEmit(n, i)
  \/ \E n \in Nodes : Terminator(n)
  \/ \E n \in Nodes : BranchRecv(n)
  \/ \E n \in Nodes : BranchSend(n)
  \/ \E n \in Nodes : BranchCtxDone(n)
  \/ \E n \in Nodes : BranchClosed(n)
  \/ \E e \in Edges : MergeRecv(e)
  \/ \E e \in Edges : MergeSend(e)
  \/ \E e \in Edges : MergeCtxDone(e)
  \/ \E e \in Edges : MergeClosed(e)
  \/ \E n \in Nodes : MergeClose(n)
  \/ ArbiterCtxDone \/ ArbiterCancel \/ ArbiterSend \/ ArbiterClose \/ ArbiterDefer

Next == Prog \/ ParentCancel \/ Cleanup

Spec == Init /\ [][Next]_vars

\* ------------------------------------------------------------------ properties
\* No goroutine of the program can take a step.
Quiescent == ~ENABLED Prog
\* s is a prefix of t
IsPrefix(s, t) == Len(s) <= Len(t) /\ s = SubSeq(t, 1, Len(s))
\* the errors reported so far
Reported == { ErrNames[k] : k \in 1 .. errCount }
\* the elements of sequence s
Range(s) == { s[k] : k \in 1 .. Len(s) }
\* the predecessors of node n in the layout
Preds(n) == { e[1] : e \in { f \in Edges : EdgeTo(f) = n } }
\* what the workers of n have received that predecessor p emitted, in the
\* order of reception
Origin(n, p) == LET FromP(d) == d \in Range(emitted[p]) IN SelectSeq(recvd[n], FromP)
\* the number of payloads the nodes of S have emitted
RECURSIVE EmittedBy(_)
EmittedBy(S) ==
  IF S = {} THEN 0
  ELSE LET p == CHOOSE q \in S : TRUE IN Len(emitted[p]) + EmittedBy(S \ { p })

\* C1: in a run without error and without cancellation, once every worker
\* has finished and nothing more can happen, the caller has received nil on
\* killChan and killChan is closed.
C1_SuccessReported ==
  (AllWorkersDone /\ errCount = 0 /\ ~ctxDone /\ Quiescent)
    => (received = << NilErr >> /\ killOut.closes = 1)

\* C2: Finish of a node is invoked at most once during a run.
C2_FinishAtMostOnce == \A n \in Nodes : finishCalls[n] <= 1

\* C3: no Finish call of a node starts while a ProcessData call of the node
\* is in progress or before its input link is closed and drained.
C3_FinishAfterProcessData == finishEarly = {}

\* C4: when Run has returned and the run is over (every worker has exited,
\* nothing more can happen), onComplete has been invoked exactly once.
C4_OnCompleteOnce ==
  (runpc = "returned" /\ AllWorkersDone /\ Quiescent) => onCompleteCalls = 1

\* C5: killChan is closed at most once (exactly once when the kill goroutine
\* has returned), at most one value is ever sent on it, and nothing is sent
\* on it once it is closed.
C5_KillOutOnce ==
  /\ [](/\ killOut.closes <= 1
        /\ Len(killOut.sent) <= 1
        /\ (arbpc = "done" => killOut.closes = 1 /\ Len(killOut.sent) = 1))
  /\ [][killOut.closes > 0 => killOut'.sent = killOut.sent]_vars
C5_Witness ==
  arbpc = "done" /\ killOut.closes = 1 /\ errCount = 2 /\ parentDone

C7_CancelDelivers ==
  (parentDone /\ ~preCancelled /\ errCount = 0 /\ Quiescent)
    => (runpc = "returned" /\ received = << Canceled >>)

\* C8: when the parent was cancelled before Run was called (no processor
\* reports an error) and nothing more can happen, Run has returned and the
\* caller has received the cancellation reason.
C8_PreCancelDelivers ==
  (preCancelled /\ errCount = 0 /\ Quiescent)
    => (runpc = "returned" /\ received = << Canceled >>)

\* C9: no payload channel is closed twice, dp.outputChan is closed only by
\* the goroutine that waits for the node's workers, and when every worker
\* has exited without cancellation every channel has been closed once.
C9_ClosedOnce ==
  /\ \A n \in Nodes :
       /\ inputChan[n].closes <= 1
       /\ outputChan[n].closes <= 1
       /\ (outputChan[n].closes > 0 => (tpc[n] # "wait" /\ HasOutput(n)))
  /\ \A e \in Edges : edgeChan[e].closes <= 1
  /\ (AllWorkersDone /\ ~ctxDone) =>
       /\ \A n \in Nodes :
            /\ inputChan[n].closes = 1
            /\ (HasOutput(n) => outputChan[n].closes = 1)
       /\ \A e \in Edges : edgeChan[e].closes = 1
C9_Witness ==
  /\ layout = 3 /\ AllWorkersDone /\ ~ctxDone
  /\ \A n \in Nodes : inputChan[n].closes = 1
  /\ \A e \in Edges : edgeChan[e].closes = 1

\* C10: what the workers of a successor fed by one producer have received
\* is always a prefix of what the producer emitted, and is all of it, in
\* emission order, once a run without error or cancellation is over.
C10_FanOut ==
  \A e \in Edges :
    (MergeInChans(EdgeTo(e)) = { e }) =>
      /\ IsPrefix(recvd[EdgeTo(e)], emitted[e[1]])
      /\ (AllWorkersDone /\ ~ctxDone /\ errCount = 0)
           => recvd[EdgeTo(e)] = emitted[e[1]]
C10_Witness ==
  /\ layout = 3 /\ AllWorkersDone /\ ~ctxDone
  /\ recvd[2] = << "a", "b" >> /\ recvd[3] = << "a", "b" >>

\* C11: for a node with several predecessors, the payloads its workers have
\* received from one predecessor are always a prefix of what that
\* predecessor emitted; once a run without error or cancellation is over
\* they are all of it, in emission order, and the workers have received
\* exactly as many payloads as the predecessors emitted together.
C11_FanIn ==
  \A n \in Nodes :
    Cardinality(Preds(n)) > 1 =>
      /\ \A p \in Preds(n) : IsPrefix(Origin(n, p), emitted[p])
      /\ Len(recvd[n]) <= EmittedBy(Preds(n))
      /\ (AllWorkersDone /\ ~ctxDone /\ errCount = 0) =>
           /\ \A p \in Preds(n) : Origin(n, p) = emitted[p]
           /\ Len(recvd[n]) = EmittedBy(Preds(n))
C11_Witness ==
  /\ layout = 4 /\ AllWorkersDone /\ ~ctxDone
  /\ emitted[1] = << "1", "2" >> /\ emitted[2] = << "3", "4" >>
  /\ recvd[3] = << "3", "1", "4", "2" >>

\* how often p.onComplete has been invoked, by Run and by Cleanup
OnCompleteInvocations == onCompleteCalls + cleanupCalls

\* C12: over any sequence of Run and Cleanup calls on one pipeline,
\* onComplete is invoked at most once.
C12_CleanupIdempotent == OnCompleteInvocations <= 1

\* the capacity initDataChan gives a link: make(chan data.JSON, p.BufferLength)
LinkCapacity == bufLen

\* C13: when the caller did not set BufferLength, the links Run creates
\* have capacity 8.
C13_DefaultCapacity ==
  (~bufferLengthSet /\ runpc # "init") => LinkCapacity = DocumentedBufferLength

\* the stage a node is in
StageOf(n) ==
  CHOOSE i \in 1 .. Len(Lay.stages) : \E j \in 1 .. Len(Lay.stages[i]) : Lay.stages[i][j] = n

\* C14: the layout NewPipeline builds from processors p1 .. pn has n stages,
\* stage i holds exactly pi, the successors of pi are exactly p(i+1) for
\* i < n, pn has none, and every edge leads to a strictly later stage.
C14_LinearLayout ==
  LET ps == Lay.processors
      n == Len(ps)
  IN  n >= 1 =>
        /\ Len(Lay.stages) = n
        /\ \A i \in 1 .. n : Lay.stages[i] = << ps[i] >>
        /\ \A i \in 1 .. n - 1 : DataProcessorOutputs(ps[i]) = << ps[i + 1] >>
        /\ DataProcessorOutputs(ps[n]) = << >>
        /\ \A e \in Edges : StageOf(e[1]) < StageOf(EdgeTo(e))
C14_Witness ==
  /\ Lay.processors = << 2, 3, 1 >>
  /\ AllWorkersDone /\ ~ctxDone
  /\ recvd[2] = << StartSignal >> /\ recvd[3] = << "A", "B" >> /\ recvd[1] = << "A", "B" >>

\* C15: the workers of a root receive nothing but the start token, once;
\* the root's input link is closed only after the token has been written;
\* and when a run without error or cancellation is over, ProcessData of
\* every root has been invoked exactly once, with the start token, and the
\* root's input link is closed.
C15_RootStartedOnce ==
  \A r \in RootSet :
    /\ IsPrefix(recvd[r], << StartSignal >>)
    /\ IsClosed(inputChan[r]) => (recvd[r] \o inputChan[r].buf = << StartSignal >>)
    /\ (AllWorkersDone /\ ~ctxDone /\ errCount = 0) =>
         (recvd[r] = << StartSignal >> /\ IsClosed(inputChan[r]))
C15_Witness ==
  /\ layout = 3 /\ NumWorkers(1) = 2 /\ AllWorkersDone /\ ~ctxDone
  /\ recvd[1] = << StartSignal >> /\ IsClosed(inputChan[1])

\* a Finish call of node n is in progress: in a worker, or in Run
FinishActive(n) ==
  \/ \E i \in Workers(n) : wpc[n][i] \in { "fin_kill", "fin_emit" }
  \/ runpc \in { "kick_kill", "kick_emit" } /\ Roots[rootIdx] = n

\* C16: the output link of a node is closed only when all its workers have
\* exited and no Finish call of the node is in progress, and no Finish call
\* of the node starts after the close.
C16_CloseAfterFinish ==
  /\ \A n \in Nodes :
       IsClosed(outputChan[n]) => (NodeWorkersDone(n) /\ ~FinishActive(n))
  /\ finishLate = {}

C19_CancelDrains ==
  (ctxDone /\ ~panicked /\ Quiescent) => AllWorkersDone

\* the kill goroutine has received an error from innerKillChan
ArbiterFailed == arbErr \in Reported

\* C20: once the kill goroutine has received an error, p.ctx is cancelled
\* before the error is forwarded on killChan, killChan is closed only after
\* the caller has received the error, and onComplete is invoked by Run only
\* after killChan has been closed.
C20_ArbiterOrder ==
  ArbiterFailed =>
    /\ (arbpc \in { "send", "close", "defer", "done" } \/ killOut.sent # << >>) => ctxDone
    /\ IsClosed(killOut) => (killOut.sent = << arbErr >> /\ received = << arbErr >>)
    /\ onCompleteCalls > 0 => IsClosed(killOut)
    /\ arbpc = "done" => (onCompleteCalls = 1 /\ IsClosed(killOut))
C20_Witness ==
  /\ ArbiterFailed /\ ~parentDone /\ arbpc = "done"
  /\ ctxDone /\ received = << arbErr >> /\ IsClosed(killOut) /\ onCompleteCalls = 1

\* a KillPipelineIfErr call has not returned yet
KillCallPending ==
  \/ \E n \in Nodes : \E i \in Workers(n) : wpc[n][i] \in { "pd_kill", "fin_kill" }
  \/ runpc = "kick_kill"
\* the kill goroutine has taken a value from innerKillChan
ArbiterReceived ==
  arbpc \in { "cancel", "send", "close", "defer", "done" } /\ arbErr # Canceled

\* C21: what the kill goroutine takes from innerKillChan is never nil; what
\* it has taken is not replaced by a later error, and nothing else reaches
\* killChan; and once it has taken an error, or p.ctx is cancelled, the
\* program does not come to rest while a KillPipelineIfErr call has not
\* returned.
C21_SecondaryDropped ==
  /\ [](/\ ArbiterReceived => arbErr \in Reported
        /\ NilErr \notin Range(killOut.sent)
        /\ Len(killOut.sent) <= 1
        /\ killOut.sent # << >> => killOut.sent = << arbErr >>
        /\ ((ArbiterReceived \/ ctxDone) /\ Quiescent) => ~KillCallPending)
  /\ [][arbpc \notin { "idle", "select" } => arbErr' = arbErr]_vars
C21_Witness ==
  /\ errCount = 2 /\ ~parentDone /\ arbpc = "done"
  /\ killOut.sent = << "E1" >> /\ received = << "E1" >>
  /\ ~KillCallPending /\ AllWorkersDone

\* C22: after an error or a cancellation, also when the caller never
\* receives from killChan, the program does not come to rest before the
\* kill goroutine has returned and onComplete has been invoked by it.
C22_ArbiterNoLeak ==
  (runpc = "returned" /\ (ArbiterReceived \/ ctxDone) /\ Quiescent) =>
    (arbpc = "done" /\ onCompleteCalls = 1)

\* the edges of the layout: (p, k) for the k-th successor of p
LayoutEdges == { pk \in Nodes \X Nodes : pk[2] <= Len(Lay.outputs[pk[1]]) }
\* sequence s has no element twice
NoRepeat(s) == \A a, b \in 1 .. Len(s) : s[a] = s[b] => a = b

\* C23: after connectStages, the k-th channel of p.branchOutChans is the one
\* channel made for the edge to the k-th successor of p and is in that
\* successor's mergeInChans; p.branchOutChans has one channel per successor
\* and s.mergeInChans one per incoming edge; no channel serves two edges;
\* and the channels the adapters of the run use are these.
C23_Wiring ==
  runpc # "init" =>
    LET w == ConnectStages IN
      /\ w.made = Cardinality(LayoutEdges)
      /\ \A p \in Nodes : Len(w.branchOutChans[p]) = Len(Lay.outputs[p])
      /\ \A pk \in LayoutEdges :
           w.branchOutChans[pk[1]][pk[2]] \in Range(w.mergeInChans[Lay.outputs[pk[1]][pk[2]]])
      /\ \A s \in Nodes :
           Len(w.mergeInChans[s])
             = Cardinality({ pk \in LayoutEdges : Lay.outputs[pk[1]][pk[2]] = s })
      /\ \A pk, ql \in LayoutEdges :
           w.branchOutChans[pk[1]][pk[2]] = w.branchOutChans[ql[1]][ql[2]] => pk = ql
      /\ \A s \in Nodes : NoRepeat(w.mergeInChans[s])
      /\ \A s, t \in Nodes :
           s # t => Range(w.mergeInChans[s]) \cap Range(w.mergeInChans[t]) = {}
      /\ \A n \in Nodes : Len(BranchOutChans(n)) = Len(w.branchOutChans[n])
      /\ \A e \in Edges : \A s \in Nodes :
           e \in MergeInChans(s) <=> w.branchOutChans[e[1]][e[2]] \in Range(w.mergeInChans[s])
C23_Witness ==
  /\ layout = 3 /\ runpc = "returned"
  /\ ConnectStages.branchOutChans[1] = << 1, 2 >>
  /\ ConnectStages.mergeInChans[2] = << 1 >> /\ ConnectStages.mergeInChans[3] = << 2 >>

\* a send on the output link of node n is about to be made: by a worker
\* inside ProcessData or Finish, or by the Finish call Run makes inline
EmitPending(n) ==
  \/ \E i \in Workers(n) : wpc[n][i] \in { "pd_emit", "fin_emit" }
  \/ runpc = "kick_emit" /\ Roots[rootIdx] = n

\* C24: no send is made on an output link that has been closed: no emitter
\* is about to send on a closed link, and the program never panics.
C24_NoSendAfterClose ==
  /\ \A n \in Nodes : IsClosed(outputChan[n]) => ~EmitPending(n)
  /\ ~panicked

====
